---- MODULE Spec2Model ----
(***************************************************************************)
(* Model of services/query_parse.py: the compiler from a nested query      *)
(* specification (ActionTree) to one JSON-producing SQL statement, and of  *)
(* the serializer registry of services/serialization.py it resolves names  *)
(* through.  The statement is kept as a structured value (projection,      *)
(* joins with their kind, predicates, ordering, pagination) and is        *)
(* evaluated over a small database to obtain the JSON the store returns.   *)
(***************************************************************************)
EXTENDS Integers, Sequences, FiniteSets, TLC

VARIABLES
    pc,          \* position in get_all / _json_query
    root,        \* the entity type whose serializer is passed to get_all
    qo,          \* the ActionTree passed to get_all (mutated while compiling)
    qo0,         \* the ActionTree as the caller supplied it
    q,           \* the statement built so far by _json_query
    error,       \* the exception that ended compilation ("" if none)
    result       \* the JSON array returned by the store for the statement

vars == <<pc, root, qo, qo0, q, error, result>>

(***************************************************************************)
(* Option values: None is the empty sequence, Some(x) is <<x>>.            *)
(***************************************************************************)
None == <<>>
Some(x) == <<x>>
IsNone(o) == o = <<>>
Val(o) == o[1]

Range(s) == {s[i] : i \in DOMAIN s}

EXCLUDE_COLUMN_PREFIX == "!"

WILDCARD == "*"

(***************************************************************************)
(* The serializer registry: three registered serializers.                  *)
(***************************************************************************)
Entities == {"Author", "Book", "Tag"}

SerializerField(field, alias) == [field |-> field, alias |-> alias]

\* serializer.fields, relation fields included
fields(e) ==
    CASE e = "Author" -> << SerializerField("id", "id"),
                            SerializerField("name", "name"),
                            SerializerField("age", "age"),
                            SerializerField("books", "books") >>
      [] e = "Book"   -> << SerializerField("id", "id"),
                            SerializerField("title", "name"),
                            SerializerField("author_id", "author_id"),
                            SerializerField("author", "author"),
                            SerializerField("tags", "tags") >>
      [] e = "Tag"    -> << SerializerField("id", "id"),
                            SerializerField("label", "label"),
                            SerializerField("books", "works") >>

Col(t, n) == [table |-> t, name |-> n]

\* inspect(model).relationships: keyed by the relationship's storage name
relationships(e) ==
    CASE e = "Author" ->
           [books |-> [direction |-> "ONETOMANY", entity |-> "Book",
                       primaryjoin |-> [left |-> Col("Author", "id"),
                                        right |-> Col("Book", "author_id")],
                       secondaryjoin |-> None]]
      [] e = "Book" ->
           [author |-> [direction |-> "MANYTOONE", entity |-> "Author",
                        primaryjoin |-> [left |-> Col("Author", "id"),
                                         right |-> Col("Book", "author_id")],
                        secondaryjoin |-> None],
            tags |-> [direction |-> "MANYTOMANY", entity |-> "Tag",
                      primaryjoin |-> [left |-> Col("Book", "id"),
                                       right |-> Col("book_tags", "book_id")],
                      secondaryjoin |-> Some([left |-> Col("Tag", "id"),
                                              right |-> Col("book_tags", "tag_id")])]]
      [] e = "Tag" ->
           [books |-> [direction |-> "MANYTOMANY", entity |-> "Book",
                       primaryjoin |-> [left |-> Col("Tag", "id"),
                                        right |-> Col("book_tags", "tag_id")],
                       secondaryjoin |-> Some([left |-> Col("Book", "id"),
                                               right |-> Col("book_tags", "book_id")])]]

\* inspect(model).columns
columns(e) ==
    {Col(e, fields(e)[i].field) : i \in {j \in DOMAIN fields(e) :
                                          fields(e)[j].field \notin DOMAIN relationships(e)}}

\* BaseSerializer.get_db_field: raises unless some field has this storage name
has_db_field(e, db_field) == \E i \in DOMAIN fields(e) : fields(e)[i].field = db_field

get_db_field(e, db_field) == Col(e, db_field)

\* BaseSerializer.get_serializer_field: raises unless some field has this alias
has_serializer_field(e, field_alias) ==
    \E i \in DOMAIN fields(e) : fields(e)[i].alias = field_alias

get_serializer_field(e, field_alias) ==
    fields(e)[CHOOSE i \in DOMAIN fields(e) :
                /\ fields(e)[i].alias = field_alias
                /\ \A j \in DOMAIN fields(e) : fields(e)[j].alias = field_alias => i <= j]

\* get_prop_serializer: the serializer of the entity a relationship leads to
has_prop_serializer(e, prop) == prop \in DOMAIN relationships(e)

get_prop_serializer(e, prop) == relationships(e)[prop].entity

(***************************************************************************)
(* services/query_parser (ActionTree, FilterAction, SortAction,            *)
(* NestedField): a field reference is a path of name segments; it is a     *)
(* NestedField when it has two segments or more, and a one-segment path    *)
(* stands for the name it holds.                                           *)
(***************************************************************************)
ActionTree ==
    [select |-> Some(<<>>), filters |-> <<>>, sort |-> None,
     relations |-> <<>>, offset |-> None, limit |-> None]

FilterAction(field, op, value) == [field |-> field, operator |-> op, value |-> value]

SortAction(field, order) == [field |-> field, order |-> order]

NestedField(field) == Len(field) >= 2

shift_down(field) == Tail(field)

\* dict item assignment  relations[name] = tree
SetItem(relations, name, tree) ==
    [r \in DOMAIN relations \cup {name} |-> IF r = name THEN tree ELSE relations[r]]

(***************************************************************************)
(* Field selection.                                                        *)
(***************************************************************************)
\* every name a select entry can carry after the exclusion prefix
Names ==
    UNION {{fields(e)[i].alias : i \in DOMAIN fields(e)} : e \in Entities}
      \cup {WILDCARD, "nosuch"}

startswith(s, prefix) == \E a \in Names : s = prefix \o a

\* _field[1:]
strip(s) == CHOOSE a \in Names : s = EXCLUDE_COLUMN_PREFIX \o a

non_relation_fields(e) ==
    SelectSeq(fields(e), LAMBDA f : f.field \notin DOMAIN relationships(e))

\* list.remove
remove(lst, x) ==
    LET first == CHOOSE i \in DOMAIN lst :
                     lst[i] = x /\ \A j \in DOMAIN lst : lst[j] = x => i <= j
    IN  [i \in 1..(Len(lst) - 1) |-> IF i < first THEN lst[i] ELSE lst[i + 1]]

\* a loop that removes every excluded field from the full list, resetting once
RECURSIVE exclude_fields_accumulate(_, _, _)
exclude_fields_accumulate(e, select, cur) ==
    IF select = <<>> THEN cur
    ELSE IF cur.err # "" THEN cur
    ELSE IF ~startswith(Head(select), EXCLUDE_COLUMN_PREFIX)
         THEN exclude_fields_accumulate(e, Tail(select), cur)
    ELSE IF ~has_serializer_field(e, strip(Head(select)))
         THEN [err |-> "Unknown serializer field", fts |-> <<>>]
    ELSE exclude_fields_accumulate(e, Tail(select),
             [err |-> "",
              fts |-> SelectSeq(cur.fts, LAMBDA f : f.alias # strip(Head(select)))])

\* the loop over the select entries that start with the exclusion prefix
RECURSIVE exclude_fields(_, _, _)
exclude_fields(e, select, cur) ==
    IF select = <<>> THEN cur
    ELSE IF cur.err # "" THEN cur
    ELSE IF ~startswith(Head(select), EXCLUDE_COLUMN_PREFIX)
         THEN exclude_fields(e, Tail(select), cur)
    ELSE IF ~has_serializer_field(e, strip(Head(select)))
         THEN [err |-> "Unknown serializer field", fts |-> <<>>]
    ELSE IF get_serializer_field(e, strip(Head(select))) \notin Range(non_relation_fields(e))
         THEN [err |-> "ValueError", fts |-> <<>>]
    ELSE exclude_fields(e, Tail(select),
             [err |-> "",
              fts |-> remove(non_relation_fields(e),
                             get_serializer_field(e, strip(Head(select))))])

\* _json_query: _field_to_select
json_query_field_to_select(e, select) ==
    IF IsNone(select) THEN [err |-> "TypeError", fts |-> <<>>]
    ELSE
    LET sel == Val(select)
        _wild_select == \E i \in DOMAIN sel : sel[i] = "*"
        plain == SelectSeq(sel, LAMBDA a : ~startswith(a, "!"))
        start ==
            IF _wild_select THEN [err |-> "", fts |-> non_relation_fields(e)]
            ELSE IF \E i \in DOMAIN plain : ~has_serializer_field(e, plain[i])
                 THEN [err |-> "Unknown serializer field", fts |-> <<>>]
            ELSE [err |-> "",
                  fts |-> [i \in DOMAIN plain |-> get_serializer_field(e, plain[i])]]
    IN  exclude_fields(e, sel, start)

\* _relation_select: _field_to_select
relation_select_field_to_select(e, select) ==
    IF IsNone(select) \/ Val(select) = <<>>
    THEN [err |-> "", fts |-> non_relation_fields(e)]
    ELSE
    LET sel == Val(select)
        _wild_select == \E i \in DOMAIN sel : sel[i] = WILDCARD
        start ==
            IF _wild_select THEN [err |-> "", fts |-> non_relation_fields(e)]
            ELSE IF \E i \in DOMAIN sel : ~has_serializer_field(e, sel[i])
                 THEN [err |-> "Unknown serializer field", fts |-> <<>>]
            ELSE [err |-> "",
                  fts |-> [i \in DOMAIN sel |-> get_serializer_field(e, sel[i])]]
    IN  exclude_fields(e, sel, start)

(***************************************************************************)
(* Filters: a dotted filter is handed to the relation its leading segment  *)
(* names; a direct filter becomes a predicate on a column.                 *)
(***************************************************************************)
\* a push that starts from a fresh specification also when the relation is declared
push_filter_fresh(relations, flt_item, synth_select) ==
    SetItem(relations, flt_item.field[1],
        [ActionTree EXCEPT
            !.select = synth_select,
            !.filters = <<FilterAction(shift_down(flt_item.field),
                                       flt_item.operator, flt_item.value)>>])

\* a push that creates the relation entry with select ["id"] at every level
push_filter_id_select(relations, flt_item, synth_select) ==
    LET name == flt_item.field[1]
        rel_action == IF name \in DOMAIN relations THEN relations[name]
                      ELSE [ActionTree EXCEPT !.select = Some(<<"id">>)]
    IN  SetItem(relations, name,
            [rel_action EXCEPT !.filters =
                Append(@, FilterAction(shift_down(flt_item.field),
                                       flt_item.operator, flt_item.value))])

\* the relation's specification with the shifted filter appended; the relation
\* entry is created with the given select when the specification has none
push_filter(relations, flt_item, synth_select) ==
    LET name == flt_item.field[1]
        rel_action == IF name \in DOMAIN relations THEN relations[name]
                      ELSE [ActionTree EXCEPT !.select = synth_select]
    IN  SetItem(relations, name,
            [rel_action EXCEPT !.filters =
                Append(@, FilterAction(shift_down(flt_item.field),
                                       flt_item.operator, flt_item.value))])

\* the loop over the filters: cur is [err, relations, _inner_cte, filter_items]
RECURSIVE filter_loop(_, _, _, _)
filter_loop(e, filters, synth_select, cur) ==
    IF filters = <<>> THEN cur
    ELSE
    LET flt_item == Head(filters)
    IN  IF NestedField(flt_item.field)
        THEN filter_loop(e, Tail(filters), synth_select,
                 [cur EXCEPT !.relations = push_filter(@, flt_item, synth_select),
                             !._inner_cte = @ \cup {flt_item.field[1]}])
        ELSE IF ~has_serializer_field(e, flt_item.field[1])
        THEN [cur EXCEPT !.err = "Unknown serializer field"]
        ELSE filter_loop(e, Tail(filters), synth_select,
                 [cur EXCEPT !.filter_items =
                     Append(@, [col |-> get_serializer_field(e, flt_item.field[1]).field,
                                operator |-> flt_item.operator,
                                value |-> flt_item.value])])

filter_start(relations) ==
    [err |-> "", relations |-> relations, _inner_cte |-> {}, filter_items |-> <<>>]

(***************************************************************************)
(* Relation Resolver.                                                      *)
(***************************************************************************)
\* a join that is LEFT OUTER whatever the filters are
isouter_always(relation_name, _inner_cte) == TRUE

\* isouter=relation_name not in _inner_cte
isouter(relation_name, _inner_cte) == relation_name \notin _inner_cte

\* a relation field that wraps the rows in an array for every direction
relation_field_array(direction) == [agg_fn |-> "json", else_case |-> "[]"]

\* the aggregate and the default of a relation's JSON field, by direction
relation_field(direction) ==
    [agg_fn |-> IF direction = "MANYTOONE" THEN "json_extract $[0]" ELSE "json",
     else_case |-> IF direction = "MANYTOONE" THEN "NULL" ELSE "[]"]

RECURSIVE _relation_select(_, _, _, _)
RECURSIVE _resolve_relationships(_, _)

NoCte == [err |-> "no fragment"]

\* _resolve_relationships: one fragment per entry of action.relations, the JSON
\* fields of the relations whose select is not None, and the joins
_resolve_relationships(action, serializer) ==
    LET names == DOMAIN action.relations
        known(r) == /\ has_serializer_field(serializer, r)
                    /\ get_serializer_field(serializer, r).field
                           \in DOMAIN relationships(serializer)
        src(r) == get_serializer_field(serializer, r).field
        sub == [r \in names |->
                   IF known(r)
                   THEN _relation_select(action.relations[r],
                                         get_prop_serializer(serializer, src(r)),
                                         serializer,
                                         relationships(serializer)[src(r)])
                   ELSE [err |-> IF has_serializer_field(serializer, r)
                                 THEN "KeyError" ELSE "Unknown serializer field",
                         action |-> action.relations[r], cte |-> NoCte]]
        shown == {r \in names : ~IsNone(action.relations[r].select)}
        direction(r) == relationships(serializer)[src(r)].direction
        unsupported == {r \in shown : known(r) /\
                           direction(r) \notin {"ONETOMANY", "MANYTOONE", "MANYTOMANY"}}
        failed == {r \in names : sub[r].err # ""}
    IN  [err |-> IF failed # {} THEN sub[CHOOSE r \in failed : TRUE].err
                 ELSE IF unsupported # {} THEN "SQLGenerationException"
                 ELSE "",
         relations |-> [r \in names |-> sub[r].action],
         _fields |-> IF failed # {} THEN <<>>
                     ELSE [r \in shown |-> relation_field(direction(r))],
         _joins |-> [r \in names |-> sub[r].cte]]

\* _relation_select: the fragment of one relation, and the relation's
\* specification as the call leaves it
_relation_select(action, serializer, parent_model, sql_relation) ==
    LET primaryjoin == sql_relation.primaryjoin
        left_here == primaryjoin.left \in columns(serializer)
        parent_id_col == IF left_here THEN primaryjoin.left ELSE primaryjoin.right
        other_id_col == IF left_here THEN primaryjoin.right ELSE primaryjoin.left
        has_parent_id_col == parent_id_col # Col(serializer, "id")
        selecting == ~IsNone(action.select) /\ Val(action.select) # <<>>
        chosen == relation_select_field_to_select(serializer, action.select)
        bad_filter == \E i \in DOMAIN action.filters :
                         /\ ~NestedField(action.filters[i].field)
                         /\ ~has_serializer_field(serializer, action.filters[i].field[1])
        direct == SelectSeq(action.filters, LAMBDA f : ~NestedField(f.field))
        fld == {get_db_field(serializer, chosen.fts[i].field).name : i \in DOMAIN chosen.fts}
                 \cup (IF has_parent_id_col /\ sql_relation.direction # "MANYTOMANY"
                       THEN {parent_id_col.name} ELSE {})
                 \cup {get_db_field(serializer,
                           get_serializer_field(serializer, direct[i].field[1]).field).name :
                          i \in DOMAIN direct}
                 \cup {get_db_field(serializer, "id").name}
        sort_err == /\ ~IsNone(action.sort)
                    /\ \/ NestedField(Val(action.sort).field)
                       \/ ~has_db_field(serializer, Val(action.sort).field[1])
        flt == filter_loop(serializer, action.filters, Some(<<"id">>),
                           filter_start(action.relations))
        action1 == [action EXCEPT !.relations = flt.relations]
        rels == _resolve_relationships(action1, serializer)
        by_parent_id == ~has_parent_id_col \/ sql_relation.direction = "MANYTOMANY"
        fail(msg, act) == [err |-> msg, action |-> act, cte |-> NoCte]
    IN  IF chosen.err # "" THEN fail(chosen.err, action)
        ELSE IF selecting /\ bad_filter THEN fail("Unknown serializer field", action)
        ELSE IF sort_err THEN fail("Unknown db model field", action)
        ELSE IF flt.err # "" THEN fail(flt.err, action1)
        ELSE IF rels.err # ""
             THEN fail(rels.err, [action1 EXCEPT !.relations = rels.relations])
        ELSE [err |-> "",
              action |-> [action1 EXCEPT !.relations = rels.relations],
              cte |->
                [err |-> "",
                 entity |-> serializer,
                 direction |-> sql_relation.direction,
                 columns |-> IF selecting THEN fld
                             ELSE {c.name : c \in columns(serializer)},
                 order_by |-> IF IsNone(action.sort) THEN None
                              ELSE Some([col |-> Val(action.sort).field[1],
                                         order |-> Val(action.sort).order]),
                 fields_into_json |-> chosen.fts,
                 relation_fields |-> rels._fields,
                 id |-> IF by_parent_id THEN Col(parent_model, "id")
                        ELSE Col("q", parent_id_col.name),
                 parent_joins |->
                    IF sql_relation.direction = "MANYTOMANY"
                    THEN << [table |-> primaryjoin.right.table,
                             left |-> Val(sql_relation.secondaryjoin).right,
                             right |-> Col("q", "id"), isouter |-> FALSE],
                            [table |-> parent_model,
                             left |-> other_id_col,
                             right |-> primaryjoin.right, isouter |-> FALSE] >>
                    ELSE IF ~has_parent_id_col
                    THEN << [table |-> parent_model,
                             left |-> other_id_col,
                             right |-> Col("q", parent_id_col.name), isouter |-> TRUE] >>
                    ELSE <<>>,
                 joins |-> [r \in DOMAIN rels._joins |->
                              [cte |-> rels._joins[r],
                               isouter |-> isouter(r, flt._inner_cte)]],
                 filter_items |-> flt.filter_items]]

(***************************************************************************)
(* Query Compiler: _json_query on the root specification, step by step.    *)
(***************************************************************************)
EmptyQuery ==
    [_fields |-> <<>>, _hidden_fields_to_select |-> {}, _filters |-> <<>>,
     _inner_cte |-> {}, rel_fields |-> <<>>, ctes |-> <<>>, joins |-> <<>>,
     order_by |-> None, offset |-> None, limit |-> None, group_by |-> None,
     wrapped |-> FALSE]

Raise(msg) ==
    /\ pc' = "error"
    /\ error' = msg

\* lines 75-103: the projected fields, and the id column when "id" is not requested
SelectFields ==
    /\ pc = "select"
    /\ LET chosen == json_query_field_to_select(root, qo.select)
       IN  IF chosen.err # ""
           THEN Raise(chosen.err) /\ UNCHANGED <<q, qo>>
           ELSE /\ q' = [q EXCEPT
                           !._fields = chosen.fts,
                           !._hidden_fields_to_select =
                               IF "id" \notin Range(Val(qo.select))
                               THEN {get_db_field(root, "id")} ELSE {}]
                /\ pc' = "filters"
                /\ UNCHANGED <<qo, error>>
    /\ UNCHANGED <<root, qo0, result>>

\* lines 104-131: dotted filters are pushed into relations, direct ones kept
Filters ==
    /\ pc = "filters"
    /\ LET flt == filter_loop(root, qo.filters, None, filter_start(qo.relations))
       IN  /\ qo' = [qo EXCEPT !.relations = flt.relations]
           /\ IF flt.err # ""
              THEN Raise(flt.err) /\ UNCHANGED q
              ELSE /\ q' = [q EXCEPT !._filters = flt.filter_items,
                                     !._inner_cte = flt._inner_cte]
                   /\ pc' = "relations"
                   /\ UNCHANGED error
    /\ UNCHANGED <<root, qo0, result>>

\* lines 132-133: one fragment per relation of the specification
ResolveRelations ==
    /\ pc = "relations"
    /\ LET rels == _resolve_relationships(qo, root)
       IN  /\ qo' = [qo EXCEPT !.relations = rels.relations]
           /\ IF rels.err # ""
              THEN Raise(rels.err) /\ UNCHANGED q
              ELSE /\ q' = [q EXCEPT !.rel_fields = rels._fields,
                                     !.ctes = rels._joins]
                   /\ pc' = "keys"
                   /\ UNCHANGED error
    /\ UNCHANGED <<root, qo0, result>>

\* lines 135-145: the foreign key of each relation held by this entity
this_id_col(e, relation_name) ==
    LET primaryjoin == relationships(e)[relation_name].primaryjoin
    IN  IF primaryjoin.left \in columns(e) THEN primaryjoin.left ELSE primaryjoin.right

ChildIdCols ==
    /\ pc = "keys"
    /\ IF \E r \in DOMAIN qo.relations : r \notin DOMAIN relationships(root)
       THEN Raise("KeyError") /\ UNCHANGED q
       ELSE /\ q' = [q EXCEPT !._hidden_fields_to_select =
                        @ \cup {this_id_col(root, r) : r \in
                                {x \in DOMAIN qo.relations :
                                    this_id_col(root, x) # Col(root, "id")}}]
            /\ pc' = "joins"
            /\ UNCHANGED error
    /\ UNCHANGED <<root, qo, qo0, result>>

\* lines 146-156: the fragments joined to the entity, the direct filters applied
Join ==
    /\ pc = "joins"
    /\ q' = [q EXCEPT !.joins = [r \in DOMAIN q.ctes |->
                                   [cte |-> q.ctes[r],
                                    isouter |-> isouter(r, q._inner_cte)]]]
    /\ pc' = "sort"
    /\ UNCHANGED <<root, qo, qo0, error, result>>

\* lines 175-211: the walk over the segments of a dotted sort;
\* cur is [err, relations, order_by]
RECURSIVE sort_walk(_, _, _, _)
sort_walk(e, sort, field_stack, cur) ==
    LET current_field == Head(field_stack)
        rest == Tail(field_stack)
        rel_action == IF current_field \in DOMAIN cur.relations
                      THEN cur.relations[current_field]
                      ELSE [ActionTree EXCEPT !.select = None]
        forwarded == SortAction(IF NestedField(sort.field) THEN shift_down(sort.field)
                                ELSE sort.field, sort.order)
        attached == [cur EXCEPT !.relations =
                        SetItem(@, current_field,
                                [rel_action EXCEPT !.sort = Some(forwarded)])]
    IN  IF rest # <<>>
        THEN IF ~has_prop_serializer(e, Head(rest))
             THEN [attached EXCEPT !.err = "KeyError"]
             ELSE sort_walk(e, sort, rest, attached)
        ELSE IF ~has_serializer_field(e, current_field)
             THEN [attached EXCEPT !.err = "Unknown serializer field"]
             ELSE [attached EXCEPT !.order_by =
                      Some([col |-> get_serializer_field(e, current_field).field,
                            order |-> sort.order])]

\* lines 157-211: ORDER BY
Sort ==
    /\ pc = "sort"
    /\ IF IsNone(qo.sort)
       THEN /\ pc' = "page"
            /\ UNCHANGED <<q, qo, error>>
       ELSE LET sort == Val(qo.sort)
                walked ==
                    IF Len(sort.field) = 1
                    THEN IF ~has_serializer_field(root, sort.field[1])
                         THEN [err |-> "Unknown serializer field",
                               relations |-> qo.relations, order_by |-> None]
                         ELSE [err |-> "", relations |-> qo.relations,
                               order_by |->
                                  Some([col |-> get_serializer_field(root,
                                                    sort.field[1]).field,
                                        order |-> sort.order])]
                    ELSE sort_walk(root, sort, sort.field,
                                   [err |-> "", relations |-> qo.relations,
                                    order_by |-> None])
            IN  /\ qo' = [qo EXCEPT !.relations = walked.relations]
                /\ IF walked.err # ""
                   THEN Raise(walked.err) /\ UNCHANGED q
                   ELSE /\ q' = [q EXCEPT !.order_by = walked.order_by]
                        /\ pc' = "page"
                        /\ UNCHANGED error
    /\ UNCHANGED <<root, qo0, result>>

\* Python truth value of an Optional[int]
truthy(o) == ~IsNone(o) /\ Val(o) # 0

\* lines 246-251: OFFSET, LIMIT, GROUP BY id
Paginate ==
    /\ pc = "page"
    /\ q' = [q EXCEPT !.offset = IF truthy(qo.offset) THEN qo.offset ELSE None,
                      !.limit = IF truthy(qo.limit) THEN qo.limit ELSE None,
                      !.group_by = Some(get_db_field(root, "id"))]
    /\ pc' = "wrap"
    /\ UNCHANGED <<root, qo, qo0, error, result>>

\* get_all: "[" + coalesce(group_concat(sql_rest), "") + "]"
get_all ==
    /\ pc = "wrap"
    /\ q' = [q EXCEPT !.wrapped = TRUE]
    /\ pc' = "done"
    /\ UNCHANGED <<root, qo, qo0, error, result>>

(***************************************************************************)
(* The store: the rows the statement runs over, and the value SQLite       *)
(* returns for the statement built above.  Rows are read in id order, an   *)
(* ORDER BY is a stable sort, and json_group_array keeps the order of the  *)
(* rows of the sub-query it aggregates.                                    *)
(***************************************************************************)
NumAuthors == 3

NULL == 0

Table(t) ==
    CASE t = "Author" ->
           [i \in 1..NumAuthors |->
               [id |-> i, name |-> ((i - 1) % 2) + 1, age |-> IF i = 1 THEN 2 ELSE 1]]
      [] t = "Book" ->
           << [id |-> 1, title |-> 1, author_id |-> 1],
              [id |-> 2, title |-> 2, author_id |-> 1],
              [id |-> 3, title |-> 1, author_id |-> 2],
              [id |-> 4, title |-> 2, author_id |-> NULL] >>
      [] t = "Tag" ->
           << [id |-> 1, label |-> 1], [id |-> 2, label |-> 2] >>
      [] t = "book_tags" ->
           << [book_id |-> 1, tag_id |-> 1],
              [book_id |-> 1, tag_id |-> 2],
              [book_id |-> 2, tag_id |-> 1] >>

\* the all-NULL row a LEFT OUTER JOIN supplies when nothing matches
NullRow(t) == [c \in DOMAIN Table(t)[1] |-> NULL]

JInt(n) == [t |-> "int", n |-> n, items |-> <<>>]
JNull == [t |-> "null", n |-> 0, items |-> <<>>]
JArray(objs) == [t |-> "array", n |-> 0, items |-> objs]
JObject(obj) == [t |-> "object", n |-> 0, items |-> <<obj>>]

\* flt_item.operator(column, value)
operator(op, x, value) ==
    CASE op = "eq" -> x # NULL /\ x = value
      [] op = "gt" -> x # NULL /\ x > value

\* ORDER BY col ASC | DESC, stable
RECURSIVE order_rows(_, _, _)
order_rows(rows, col, order) ==
    IF rows = <<>> THEN <<>>
    ELSE LET before(x, y) == IF order = "DESC" THEN x[col] > y[col] ELSE x[col] < y[col]
             first == CHOOSE i \in DOMAIN rows :
                        /\ \A j \in DOMAIN rows : ~before(rows[j], rows[i])
                        /\ \A j \in 1..(i - 1) : before(rows[i], rows[j])
         IN  <<rows[first]>> \o
             order_rows([i \in 1..(Len(rows) - 1) |->
                            IF i < first THEN rows[i] ELSE rows[i + 1]], col, order)

\* the rows of "q JOIN t1 ON .. JOIN t2 ON ..": one environment (table -> row) each
RECURSIVE join_envs(_, _)
join_envs(envs, joins) ==
    IF joins = <<>> THEN envs
    ELSE LET j == Head(joins)
             matches(env) == {row \in Range(Table(j.table)) :
                                /\ row[j.left.name] # NULL
                                /\ row[j.left.name] = env[j.right.table][j.right.name]}
             extend(env, row) == [t \in DOMAIN env \cup {j.table} |->
                                     IF t = j.table THEN row ELSE env[t]]
         IN  join_envs(UNION {IF matches(env) = {} /\ j.isouter
                              THEN {extend(env, NullRow(j.table))}
                              ELSE {extend(env, row) : row \in matches(env)} : env \in envs},
                       Tail(joins))

RECURSIVE cte_obj(_, _)
RECURSIVE json_object(_, _, _, _)

\* json_object(alias, column, ..., relation, CASE WHEN cte.id IS NOT NULL ..)
json_object(scalars, relation_fields, joins, row) ==
    [k \in {scalars[i].alias : i \in DOMAIN scalars} \cup DOMAIN relation_fields |->
        IF k \in DOMAIN relation_fields
        THEN LET obj == cte_obj(joins[k].cte, row.id)
             IN  IF obj # <<>>
                 THEN IF relation_fields[k].agg_fn = "json"
                      THEN JArray(obj) ELSE JObject(obj[1])
                 ELSE IF relation_fields[k].else_case = "[]"
                      THEN JArray(<<>>) ELSE JNull
        ELSE JInt(row[scalars[CHOOSE i \in DOMAIN scalars : scalars[i].alias = k].field])]

\* the obj column of the fragment's row whose id is key: the JSON objects of the
\* relation's rows grouped under that key (no row for the key: the empty sequence)
cte_obj(cte, key) ==
    LET rows == IF IsNone(cte.order_by)
                   \/ Val(cte.order_by).col \in DOMAIN relationships(cte.entity)
                THEN Table(cte.entity)
                ELSE order_rows(Table(cte.entity), Val(cte.order_by).col,
                                Val(cte.order_by).order)
        keys(row) == {env[cte.id.table][cte.id.name] :
                         env \in join_envs({[t \in {"q"} |-> row]}, cte.parent_joins)}
        joined(row) == \A r \in DOMAIN cte.joins :
                          cte.joins[r].isouter \/ cte_obj(cte.joins[r].cte, row.id) # <<>>
        kept(row) == /\ key # NULL
                     /\ key \in keys(row)
                     /\ joined(row)
                     /\ \A i \in DOMAIN cte.filter_items :
                           operator(cte.filter_items[i].operator,
                                    row[cte.filter_items[i].col],
                                    cte.filter_items[i].value)
        group == SelectSeq(rows, kept)
    IN  [i \in DOMAIN group |->
            json_object(cte.fields_into_json, cte.relation_fields, cte.joins, group[i])]

\* the rows of the root statement, in the order they are returned
root_rows(e, query) ==
    LET kept(row) == /\ \A r \in DOMAIN query.joins :
                           query.joins[r].isouter
                              \/ cte_obj(query.joins[r].cte, row.id) # <<>>
                     /\ \A i \in DOMAIN query._filters :
                           operator(query._filters[i].operator,
                                    row[query._filters[i].col],
                                    query._filters[i].value)
        matching == SelectSeq(Table(e), kept)
        ordered == IF IsNone(query.order_by)
                      \/ Val(query.order_by).col \in DOMAIN relationships(e)
                   THEN matching
                   ELSE order_rows(matching, Val(query.order_by).col,
                                   Val(query.order_by).order)
        from == IF IsNone(query.offset) THEN 1 ELSE Val(query.offset) + 1
        upto == IF IsNone(query.limit) THEN Len(ordered)
                ELSE IF from + Val(query.limit) - 1 < Len(ordered)
                     THEN from + Val(query.limit) - 1 ELSE Len(ordered)
    IN  SubSeq(ordered, from, upto)

\* the store runs the statement get_all returned
Execute ==
    /\ pc = "done"
    /\ result' = LET rows == root_rows(root, q)
                 IN  [i \in DOMAIN rows |->
                        json_object(q._fields, q.rel_fields, q.joins, rows[i])]
    /\ pc' = "returned"
    /\ UNCHANGED <<root, qo, qo0, q, error>>

(***************************************************************************)
(* The specifications get_all is called with.                              *)
(***************************************************************************)
MaxOffset == 4

MaxLimit == 4

MaxFilters == 2

Tree(select, filters, sort, relations, offset, limit) ==
    [select |-> select, filters |-> filters, sort |-> sort,
     relations |-> relations, offset |-> offset, limit |-> limit]

Plain(select) == Tree(select, <<>>, None, <<>>, None, None)

\* aliases of the relation fields and of the scalar fields of an entity
relation_aliases(e) ==
    {fields(e)[i].alias : i \in {j \in DOMAIN fields(e) :
                                   fields(e)[j].field \in DOMAIN relationships(e)}}

target(e, r) == get_prop_serializer(e, get_serializer_field(e, r).field)

\* a scalar alias other than id, and the last scalar alias
some_alias(e) == non_relation_fields(e)[2].alias

last_alias(e) == non_relation_fields(e)[Len(non_relation_fields(e))].alias

SelectLists(e) ==
    { None, Some(<<>>), Some(<<"*">>), Some(<<"id">>), Some(<<some_alias(e)>>),
      Some(<<"id", some_alias(e)>>),
      Some(<<"*", "!" \o some_alias(e)>>),
      Some(<<"*", "!" \o some_alias(e), "!" \o last_alias(e)>>),
      Some(<<"!" \o last_alias(e), "*", "!" \o some_alias(e)>>),
      Some(<<some_alias(e), "!" \o last_alias(e)>>),
      Some(<<"id", "!id">>) }

\* one relation entry
One(r, tree) == [x \in {r} |-> tree]

\* specifications that differ in what they select, at the root, in a relation,
\* and in a relation of a relation that leads back to the root's entity
SelectionTrees(e) ==
    {Plain(sel) : sel \in SelectLists(e)}
    \cup {Tree(Some(<<"id">>), <<>>, None, One(r, Plain(sel)), None, None) :
             <<r, sel>> \in UNION {{<<x, y>> : y \in SelectLists(target(e, x))} :
                                      x \in relation_aliases(e)}}
    \cup {Tree(sel[1], <<>>, None,
               One(rr[1], Tree(Some(<<"id">>), <<>>, None,
                               One(rr[2], Plain(sel[2])), None, None)),
               None, None) :
             <<rr, sel>> \in
                {<<x, y>> \in
                    UNION {{<<x1, x2>> : x2 \in relation_aliases(target(e, x1))} :
                              x1 \in relation_aliases(e)} :
                    target(target(e, x), y) = e}
                \X (SelectLists(e) \X SelectLists(e))}

\* filter and sort paths: a scalar alias reached through at most two relations
RECURSIVE Paths(_, _)
Paths(e, depth) ==
    {<<some_alias(e)>>}
    \cup IF depth = 0 THEN {}
         ELSE UNION {{<<r>> \o p : p \in Paths(target(e, r), depth - 1)} :
                        r \in relation_aliases(e)}

FilterPool(e) ==
    {FilterAction(p, "eq", Len(p)) : p \in Paths(e, 2) \ {<<some_alias(e)>>}}
    \cup {FilterAction(<<some_alias(e)>>, "gt", 1),
          FilterAction(<<"nosuch">>, "eq", 1)}

RECURSIVE SeqsUpTo(_, _)
SeqsUpTo(S, n) ==
    IF n = 0 THEN {<<>>}
    ELSE SeqsUpTo(S, n - 1)
         \cup {Append(s, x) : <<s, x>> \in {t \in SeqsUpTo(S, n - 1) : Len(t) = n - 1} \X S}

SortPool(e) ==
    {None, Some(SortAction(<<some_alias(e)>>, "ASC")),
     Some(SortAction(<<some_alias(e)>>, "DESC")),
     Some(SortAction(<<"nosuch">>, "ASC"))}
    \cup {Some(SortAction(p, "DESC")) : p \in {x \in Paths(e, 1) : Len(x) = 2}}
    \cup {Some(SortAction(<<r1, r2>>, "ASC")) :
             <<r1, r2>> \in {x \in relation_aliases(e) \X relation_aliases(e) :
                                x[1] # x[2]}}

\* the specification of a relation the caller declares
NestedPool(e) ==
    { Plain(None), Plain(Some(<<"id">>)),
      Tree(Some(<<"*">>), <<>>, Some(SortAction(<<non_relation_fields(e)[2].field>>, "DESC")),
           <<>>, Some(1), Some(1)),
      Tree(Some(<<"id">>), <<FilterAction(<<some_alias(e)>>, "eq", 1)>>,
           Some(SortAction(<<some_alias(e)>>, "ASC")), <<>>, None, None) }
    \cup {Tree(Some(<<"id">>), <<FilterAction(<<r, some_alias(target(e, r))>>, "eq", 1)>>,
               None, <<>>, None, None) : r \in relation_aliases(e)}

\* every choice of declared relations: a subset of the entity's relations,
\* each with a specification of the pool
RelationPool(e) ==
    UNION {[S -> UNION {NestedPool(target(e, r)) : r \in S}] :
              S \in SUBSET relation_aliases(e)}

\* the declared relations tried: any one relation with a specification of the
\* pool, or several relations with plain specifications
Declared(e) ==
    {x \in RelationPool(e) :
        /\ \A r \in DOMAIN x : x[r] \in NestedPool(target(e, r))
        /\ \/ Cardinality(DOMAIN x) <= 1
           \/ \A r \in DOMAIN x : x[r] \in {Plain(None), Plain(Some(<<"id">>))}}

FilterTrees(e) ==
    {Tree(Some(<<"id", some_alias(e)>>), f, None, rel, None, None) :
        <<f, rel>> \in SeqsUpTo(FilterPool(e), MaxFilters) \X Declared(e)}

SortTrees(e) ==
    {Tree(Some(<<"*">>), f, srt, rel, None, None) :
        <<f, srt, rel>> \in SeqsUpTo(FilterPool(e), 1) \X SortPool(e) \X Declared(e)}

\* the specification of a relation that carries its own offset and limit
Paged(e) == Tree(Some(<<"id">>), <<>>, None, <<>>, Some(1), Some(1))

PageTrees(e) ==
    {Tree(Some(<<"id">>), f, None, rel, o, l) :
        <<f, rel, o, l>> \in
            {<<>>, <<FilterAction(<<some_alias(e)>>, "eq", 1)>>}
            \X ({<<>>} \cup {One(r, Paged(target(e, r))) : r \in relation_aliases(e)})
            \X ({None} \cup {Some(n) : n \in 0..MaxOffset})
            \X ({None} \cup {Some(n) : n \in 0..MaxLimit})}

Init ==
    /\ root \in Entities
    /\ qo \in SelectionTrees(root) \cup FilterTrees(root) \cup SortTrees(root)
              \cup PageTrees(root)
    /\ qo0 = qo
    /\ pc = "select"
    /\ q = EmptyQuery
    /\ error = ""
    /\ result = <<>>

Next ==
    \/ SelectFields
    \/ Filters
    \/ ResolveRelations
    \/ ChildIdCols
    \/ Join
    \/ Sort
    \/ Paginate
    \/ get_all
    \/ Execute

Spec == Init /\ [][Next]_vars

(***************************************************************************)
(* What the registry says, independently of the statement: the rows of a   *)
(* relationship that belong to a parent row.                               *)
(***************************************************************************)
related(e, r, parent, child) ==
    LET rel == relationships(e)[get_serializer_field(e, r).field]
        pj == rel.primaryjoin
        at(col) == IF col.table = e THEN parent[col.name] ELSE child[col.name]
    IN  IF rel.direction = "MANYTOMANY"
        THEN \E a \in Range(Table(pj.right.table)) :
                /\ a[pj.right.name] = parent[pj.left.name]
                /\ a[Val(rel.secondaryjoin).right.name]
                      = child[Val(rel.secondaryjoin).left.name]
        ELSE at(pj.left) # NULL /\ at(pj.right) # NULL /\ at(pj.left) = at(pj.right)

children(e, r, parent) ==
    SelectSeq(Table(target(e, r)), LAMBDA child : related(e, r, parent, child))

direction_of(e, r) == relationships(e)[get_serializer_field(e, r).field].direction

\* the relation names that lead a dotted filter of a specification
leading(filters) ==
    {filters[i].field[1] : i \in {j \in DOMAIN filters : NestedField(filters[j].field)}}

Compiled == pc \in {"done", "returned"}

Joined == pc \in {"sort", "page", "wrap", "done", "returned"}

\* the rows the root statement yields before OFFSET and LIMIT
matching_rows == root_rows(root, [q EXCEPT !.offset = None, !.limit = None])

(***************************************************************************)
(* C1: at every level a relation's fragment is joined INNER exactly when a *)
(* filter of the owning specification is a dotted path led by the          *)
(* relation's name, and LEFT OUTER otherwise; so without dotted filters    *)
(* every parent that passes the direct filters is kept, also one with no   *)
(* row in a relation, and a parent kept under a dotted filter r.a has a    *)
(* row of r that satisfies it.                                             *)
(***************************************************************************)
RECURSIVE JoinKinds(_, _)
JoinKinds(spec, joins) ==
    \A r \in DOMAIN joins :
        /\ joins[r].isouter <=> r \notin leading(spec.filters)
        /\ JoinKinds(spec.relations[r], joins[r].cte.joins)

passes_direct(row) ==
    \A i \in DOMAIN qo0.filters :
        NestedField(qo0.filters[i].field) \/
            operator(qo0.filters[i].operator,
                     row[get_serializer_field(root, qo0.filters[i].field[1]).field],
                     qo0.filters[i].value)

C1_JoinKind ==
    Joined =>
       /\ JoinKinds(qo, q.joins)
       /\ leading(qo0.filters) = {} =>
             /\ Range(matching_rows) = Range(SelectSeq(Table(root), passes_direct))
             /\ Len(matching_rows) = Len(SelectSeq(Table(root), passes_direct))
       /\ \A i \in DOMAIN matching_rows : \A j \in DOMAIN qo0.filters :
             Len(qo0.filters[j].field) = 2 =>
                \E c \in Range(children(root, qo0.filters[j].field[1], matching_rows[i])) :
                    operator(qo0.filters[j].operator,
                             c[get_serializer_field(target(root, qo0.filters[j].field[1]),
                                                    qo0.filters[j].field[2]).field],
                             qo0.filters[j].value)

\* a relation joined only for projection keeps a parent that has no row in it, and
\* in another relation a dotted filter has dropped a parent
C1_Witness ==
    /\ Joined
    /\ \E r \in DOMAIN q.joins :
          /\ q.joins[r].isouter
          /\ \E i \in DOMAIN matching_rows : children(root, r, matching_rows[i]) = <<>>
    /\ \E r \in DOMAIN q.joins :
          /\ ~q.joins[r].isouter
          /\ Len(matching_rows) < Len(SelectSeq(Table(root), passes_direct))

(***************************************************************************)
(* C2: the value under a projected relation's key is an empty array        *)
(* (ONE_TO_MANY, MANY_TO_MANY) or null (MANY_TO_ONE) when the relation has *)
(* no matching row for the parent, and for MANY_TO_ONE with one matching   *)
(* row it is that row's object, not an array.                              *)
(***************************************************************************)
\* the rows of relation r that match for the parent: what the fragment holds for its
\* key, which for a relation without filters is every row the registry relates
matching_objects(parent, r) == cte_obj(q.joins[r].cte, parent.id)

C2_RelationValue ==
    pc = "returned" =>
       LET rows == root_rows(root, q)
       IN  \A i \in DOMAIN rows : \A r \in DOMAIN q.rel_fields :
              LET value == result[i][r]
                  objs == matching_objects(rows[i], r)
                  many == direction_of(root, r) \in {"ONETOMANY", "MANYTOMANY"}
              IN  /\ qo.relations[r].filters = <<>> =>
                        Len(objs) = Len(children(root, r, rows[i]))
                  /\ (objs = <<>> /\ many) => (value.t = "array" /\ value.items = <<>>)
                  /\ (objs = <<>> /\ ~many) => value.t = "null"
                  /\ (Len(objs) = 1 /\ ~many) =>
                        (value.t = "object" /\ value.items = objs)
                  /\ (objs # <<>> /\ many) => (value.t = "array" /\ value.items = objs)

\* one statement returns a book without author (null), a book with its author
\* (an object) and a book without tags (an empty array)
C2_Witness ==
    /\ pc = "returned"
    /\ root = "Book"
    /\ {"author", "tags"} \subseteq DOMAIN q.rel_fields
    /\ \E i \in DOMAIN result : result[i]["author"].t = "null"
    /\ \E i \in DOMAIN result : /\ result[i]["author"].t = "object"
                                /\ result[i]["tags"].t = "array"
                                /\ result[i]["tags"].items = <<>>

(***************************************************************************)
(* C3: when a select list holds an exclusion entry, the projection         *)
(* resolved from it is every non-relation field except the one the LAST    *)
(* exclusion entry names, at the root and in every relation fragment.      *)
(***************************************************************************)
has_exclusion(select) ==
    ~IsNone(select) /\ \E i \in DOMAIN Val(select) : startswith(Val(select)[i], "!")

last_exclusion(select) ==
    LET sel == Val(select)
        last == CHOOSE i \in DOMAIN sel :
                   /\ startswith(sel[i], "!")
                   /\ \A j \in DOMAIN sel : startswith(sel[j], "!") => j <= i
    IN  strip(sel[last])

all_but(e, alias) == SelectSeq(non_relation_fields(e), LAMBDA f : f.alias # alias)

\* the root's select has been resolved
Selected == q._fields # <<>> \/ q._hidden_fields_to_select # {}

RECURSIVE LastExclusionOnly(_, _)
LastExclusionOnly(spec, cte) ==
    /\ has_exclusion(spec.select) =>
          cte.fields_into_json = all_but(cte.entity, last_exclusion(spec.select))
    /\ \A r \in DOMAIN cte.joins : LastExclusionOnly(spec.relations[r], cte.joins[r].cte)

RECURSIVE NoneSelectsAll(_, _)
NoneSelectsAll(spec, cte) ==
    /\ IsNone(spec.select) => cte.fields_into_json = non_relation_fields(cte.entity)
    /\ "id" \in cte.columns
    /\ \A r \in DOMAIN cte.joins : NoneSelectsAll(spec.relations[r], cte.joins[r].cte)

C4_SelectNoneAndId ==
    /\ (IsNone(qo0.select) /\ pc # "select") =>
          (Selected /\ q._fields = non_relation_fields(root))
    /\ Compiled =>
          Col(root, "id") \in {Col(root, q._fields[i].field) : i \in DOMAIN q._fields}
                                 \cup q._hidden_fields_to_select
    /\ \A r \in DOMAIN q.ctes : NoneSelectsAll(qo.relations[r], q.ctes[r])

(***************************************************************************)
(* C9: _relation_select resolves a select list as _json_query does: for an *)
(* explicit select list given both to the root and to a relation that      *)
(* leads back to the root's entity, the relation resolves the same fields  *)
(* as the root, and does not fail where the root has succeeded.            *)
(***************************************************************************)
C9_SameSelectionRule ==
    \A r1 \in DOMAIN qo0.relations : \A r2 \in DOMAIN qo0.relations[r1].relations :
        ( /\ target(target(root, r1), r2) = root
          /\ ~IsNone(qo0.select)
          /\ qo0.relations[r1].relations[r2].select = qo0.select
          /\ pc \notin {"select", "filters", "relations"}
          /\ Selected )
        => /\ pc # "error"
           /\ q.ctes[r1].joins[r2].cte.fields_into_json = q._fields

(***************************************************************************)
(* C5: with offset o and limit l given on the root and no sort, the        *)
(* statement returns the matching root rows at positions o+1 .. min(o+l,N) *)
(* in id order, one object each; the offset and limit of a relation's      *)
(* specification are not applied.                                          *)
(***************************************************************************)
Min(a, b) == IF a < b THEN a ELSE b

C5_Pagination ==
    (pc = "returned" /\ ~IsNone(qo0.offset) /\ ~IsNone(qo0.limit) /\ IsNone(qo0.sort)) =>
        LET o == Val(qo0.offset)
            l == Val(qo0.limit)
            N == Len(matching_rows)
            rows == root_rows(root, q)
        IN  /\ rows = SubSeq(matching_rows, o + 1, Min(o + l, N))
            /\ Len(result) = Min(l, IF N - o > 0 THEN N - o ELSE 0)
            /\ \A i \in DOMAIN rows : \A r \in DOMAIN q.rel_fields :
                  (qo0.relations[r].filters = <<>> /\ result[i][r].t = "array") =>
                      Len(result[i][r].items) = Len(children(root, r, rows[i]))

(***************************************************************************)
(* C6: at every level the keys of an emitted object are the aliases        *)
(* resolved from the level's select and the names of the relations the     *)
(* caller declared for output; forced columns and relations synthesized    *)
(* for a dotted filter or sort are not keys.                               *)
(***************************************************************************)
aliases_of(fts) == {fts[i].alias : i \in DOMAIN fts}

RECURSIVE KeysAsRequested(_, _, _, _)
KeysAsRequested(obj, e, spec0, at_root) ==
    LET chosen == IF at_root THEN json_query_field_to_select(e, spec0.select)
                  ELSE relation_select_field_to_select(e, spec0.select)
        declared == {r \in DOMAIN spec0.relations : ~IsNone(spec0.relations[r].select)}
    IN  /\ DOMAIN obj = aliases_of(chosen.fts) \cup declared
        /\ \A r \in declared \cap DOMAIN obj : \A i \in DOMAIN obj[r].items :
              KeysAsRequested(obj[r].items[i], target(e, r), spec0.relations[r], FALSE)

C6_OutputKeys ==
    pc = "returned" =>
        \A i \in DOMAIN result : KeysAsRequested(result[i], root, qo0, TRUE)

(***************************************************************************)
(* C7 as stated: after compilation every specification node the caller     *)
(* supplied has the select, filters, sort, offset and limit it was given.  *)
(***************************************************************************)
RECURSIVE SuppliedNodesSame(_, _)
SuppliedNodesSame(spec, spec0) ==
    /\ spec.select = spec0.select
    /\ spec.filters = spec0.filters
    /\ spec.sort = spec0.sort
    /\ spec.offset = spec0.offset
    /\ spec.limit = spec0.limit
    /\ \A r \in DOMAIN spec0.relations :
          /\ r \in DOMAIN spec.relations
          /\ SuppliedNodesSame(spec.relations[r], spec0.relations[r])

C7_OnlySynthesizedEntries == Compiled => SuppliedNodesSame(qo, qo0)

(***************************************************************************)
(* C7 amended: compilation leaves the root's select, filters, sort, offset *)
(* and limit as supplied; of a relation the caller declared it leaves      *)
(* select, offset and limit as supplied, keeps the supplied filters as the *)
(* head of its filters and appends only filters pushed down from its       *)
(* parent (the shift_down of a dotted filter of the parent led by the      *)
(* relation's name, same operator and value), and leaves its sort as       *)
(* supplied or, for a relation of the root, replaces it by the root's      *)
(* dotted sort shifted down; no relation entry is removed.                 *)
(***************************************************************************)
pushed_from(parent_filters, r) ==
    {FilterAction(shift_down(parent_filters[i].field), parent_filters[i].operator,
                  parent_filters[i].value) :
        i \in {j \in DOMAIN parent_filters :
                 NestedField(parent_filters[j].field) /\ parent_filters[j].field[1] = r}}

RECURSIVE DeclaredNodeKept(_, _, _, _, _)
DeclaredNodeKept(spec, spec0, r, parent, forwarded) ==
    /\ spec.select = spec0.select
    /\ spec.offset = spec0.offset
    /\ spec.limit = spec0.limit
    /\ Len(spec.filters) >= Len(spec0.filters)
    /\ SubSeq(spec.filters, 1, Len(spec0.filters)) = spec0.filters
    /\ \A i \in (Len(spec0.filters) + 1)..Len(spec.filters) :
          spec.filters[i] \in pushed_from(parent.filters, r)
    /\ spec.sort = spec0.sort \/ spec.sort \in forwarded
    /\ \A r2 \in DOMAIN spec0.relations :
          /\ r2 \in DOMAIN spec.relations
          /\ DeclaredNodeKept(spec.relations[r2], spec0.relations[r2], r2, spec, {})

C7_SuppliedNodesKept ==
    /\ qo.select = qo0.select
    /\ qo.filters = qo0.filters
    /\ qo.sort = qo0.sort
    /\ qo.offset = qo0.offset
    /\ qo.limit = qo0.limit
    /\ \A r \in DOMAIN qo0.relations :
          /\ r \in DOMAIN qo.relations
          /\ DeclaredNodeKept(qo.relations[r], qo0.relations[r], r, qo,
                IF ~IsNone(qo0.sort) /\ NestedField(Val(qo0.sort).field)
                THEN {Some(SortAction(shift_down(Val(qo0.sort).field),
                                      Val(qo0.sort).order))}
                ELSE {})

\* a compiled specification in which a declared relation has received a pushed
\* filter behind its own and has had its sort replaced
C7_Witness ==
    /\ Compiled
    /\ \E r \in DOMAIN qo0.relations :
          /\ qo0.relations[r].filters # <<>>
          /\ Len(qo.relations[r].filters) > Len(qo0.relations[r].filters)
          /\ qo.relations[r].sort # qo0.relations[r].sort

(***************************************************************************)
(* C8: every field and relation reference is an alias resolved through the *)
(* registry, so a specification whose references are all aliases of the    *)
(* registry (plain select lists, direct sorts) compiles without error.     *)
(***************************************************************************)
RECURSIVE Resolves(_, _)
Resolves(e, path) ==
    IF Len(path) = 1 THEN path[1] \in aliases_of(non_relation_fields(e))
    ELSE /\ path[1] \in relation_aliases(e)
         /\ Resolves(target(e, path[1]), Tail(path))

RECURSIVE AliasesOnly(_, _, _)
AliasesOnly(e, spec, at_root) ==
    /\ at_root => ~IsNone(spec.select)
    /\ ~IsNone(spec.select) =>
          \A i \in DOMAIN Val(spec.select) :
              Val(spec.select)[i] \in aliases_of(non_relation_fields(e)) \cup {"*"}
    /\ \A i \in DOMAIN spec.filters : Resolves(e, spec.filters[i].field)
    /\ ~IsNone(spec.sort) =>
          (Len(Val(spec.sort).field) = 1 /\ Resolves(e, Val(spec.sort).field))
    /\ \A r \in DOMAIN spec.relations :
          /\ r \in relation_aliases(e)
          /\ AliasesOnly(target(e, r), spec.relations[r], FALSE)

C8_AliasesResolved == AliasesOnly(root, qo0, TRUE) => pc # "error"

(***************************************************************************)
(* C10: for a dotted sort whose segments all resolve, compilation          *)
(* succeeds, and the relation its first segment names has the forwarded    *)
(* sort when its fragment is built, so the fragment is ordered by it.      *)
(***************************************************************************)
PlainRelations(spec) ==
    \A r \in DOMAIN spec.relations :
        spec.relations[r] \in {Plain(None), Plain(Some(<<"id">>))}

C10_DottedSort ==
    ( /\ ~IsNone(qo0.sort)
      /\ NestedField(Val(qo0.sort).field)
      /\ Resolves(root, Val(qo0.sort).field)
      /\ qo0.filters = <<>>
      /\ PlainRelations(qo0) )
    => /\ pc # "error"
       /\ pc \in {"keys", "joins", "sort", "page", "wrap", "done", "returned"} =>
             /\ Val(qo0.sort).field[1] \in DOMAIN q.ctes
             /\ ~IsNone(q.ctes[Val(qo0.sort).field[1]].order_by)

(***************************************************************************)
(* The places a path of relation names leads to: the specification, the    *)
(* entity and the fragment.                                                *)
(***************************************************************************)
RECURSIVE has_node(_, _)
has_node(spec, path) ==
    \/ path = <<>>
    \/ /\ path[1] \in DOMAIN spec.relations
       /\ has_node(spec.relations[path[1]], Tail(path))

RECURSIVE node_at(_, _)
node_at(spec, path) ==
    IF path = <<>> THEN spec ELSE node_at(spec.relations[path[1]], Tail(path))

RECURSIVE entity_at(_, _)
entity_at(e, path) ==
    IF path = <<>> THEN e ELSE entity_at(target(e, path[1]), Tail(path))

RECURSIVE cte_at(_, _)
cte_at(joins, path) ==
    IF Len(path) = 1 THEN joins[path[1]].cte
    ELSE cte_at(joins[path[1]].cte.joins, Tail(path))

\* the direct predicate a dotted filter of the root ends in
predicate_of(flt_item) ==
    [col |-> get_serializer_field(
                 entity_at(root, SubSeq(flt_item.field, 1, Len(flt_item.field) - 1)),
                 flt_item.field[Len(flt_item.field)]).field,
     operator |-> flt_item.operator,
     value |-> flt_item.value]

\* the sort the root's dotted sort forwards into a relation of the root
forwarded_sort ==
    IF ~IsNone(qo0.sort) /\ NestedField(Val(qo0.sort).field)
    THEN {Some(SortAction(shift_down(Val(qo0.sort).field), Val(qo0.sort).order))}
    ELSE {}

\* an entry created for a dotted filter at depth k: nothing but the select of
\* its level and the filters its parent pushed into it
CreatedEmpty(path) ==
    LET spec == node_at(qo, path)
        parent == node_at(qo, SubSeq(path, 1, Len(path) - 1))
    IN  /\ spec.select = IF Len(path) = 1 THEN None ELSE Some(<<"id">>)
        /\ spec.offset = None
        /\ spec.limit = None
        /\ spec.sort = None \/ (Len(path) = 1 /\ spec.sort \in forwarded_sort)
        /\ spec.filters # <<>>
        /\ \A j \in DOMAIN spec.filters :
              spec.filters[j] \in pushed_from(parent.filters, path[Len(path)])

\* the dotted filters of the root as the caller gave them
DottedFilters ==
    {qo0.filters[i] : i \in {j \in DOMAIN qo0.filters : NestedField(qo0.filters[j].field)}}

(***************************************************************************)
(* C11: after compilation every dotted filter s1...sn of the root has, at  *)
(* the specification reached through s1..sk for each k < n, a filter with  *)
(* the remaining path and the same operator and value; it is a direct      *)
(* predicate of the fragment at depth n-1 and of no other level on its     *)
(* path; and an entry created on the way is empty but for the pushed       *)
(* filters, with select None at depth 1 and select ["id"] below.           *)
(***************************************************************************)
C11_FilterPushedDown ==
    Joined =>
      \A f \in DottedFilters :
        LET p == f.field
            n == Len(p)
        IN  /\ predicate_of(f) \notin Range(q._filters)
            /\ \A k \in 1..(n - 1) :
                  LET prefix == SubSeq(p, 1, k)
                  IN  /\ has_node(qo, prefix)
                      /\ FilterAction(SubSeq(p, k + 1, n), f.operator, f.value)
                            \in Range(node_at(qo, prefix).filters)
                      /\ predicate_of(f) \in Range(cte_at(q.joins, prefix).filter_items)
                            <=> k = n - 1
                      /\ ~has_node(qo0, prefix) => CreatedEmpty(prefix)

\* a returned query whose root filter crosses two relations, both entries
\* created by the compilation
C11_Witness ==
    /\ pc = "returned"
    /\ \E f \in DottedFilters :
          /\ Len(f.field) = 3
          /\ ~has_node(qo0, SubSeq(f.field, 1, 1))
          /\ node_at(qo, SubSeq(f.field, 1, 1)).select = None
          /\ node_at(qo, SubSeq(f.field, 1, 2)).select = Some(<<"id">>)
          /\ predicate_of(f) \in Range(cte_at(q.joins, SubSeq(f.field, 1, 2)).filter_items)

====
